---- MODULE Spec2Model ----
(***************************************************************************)
(* State-machine model of the SSH connection manager                       *)
(* (SSHConnectionManager, src/src/ssh-connection.ts and its compiled form  *)
(* src/unnamed/part_000) and of the credential store it reads              *)
(* (ServerConfigManager, src/src/server-config.ts), with the request       *)
(* handler of the tool server that calls both (src/dist/index.js).         *)
(*                                                                         *)
(* The registry field `connections` is constructed differently by the two  *)
(* forms of the class that the repository ships: the TypeScript source     *)
(* initialises it with an array literal (ssh-connection.ts:20), the        *)
(* compiled JavaScript with `new Map()` (part_000:8).  The model keeps the *)
(* constructed kind as state (connectionsKind) and gives every registry    *)
(* access the behaviour the JavaScript runtime gives it on that kind.      *)
(***************************************************************************)
EXTENDS Integers, Sequences, FiniteSets, TLC

\* ---------------------------------------------------------------- bounds
MaxCalls == 2
MaxConn == 2
MaxTime == 2
MaxExec == 1
MaxChunks == 2
MaxRequests == 1

\* ------------------------------------------------------ program constants
MsPerSecond == 1000
DefaultTimeout == 30

\* ------------------------------------------------------------ input sets
Names == {"a", "b"}
\* The JavaScript value undefined: an argument or a property that is absent.
None == "(undefined)"
\* Names of properties that every plain object inherits from Object.prototype.
PrototypeNames == {"constructor"}
\* The names a caller passes.
CallerNames == Names \cup PrototypeNames
\* The property keys under which the store can hold an entry.
Keys == Names \cup {"undefined"}
\* add_server inputs: a credential with a password, one with a key file.
ServerInputs == {<<"a", "password">>, <<"b", "key_path">>}
TimeoutArgs == {0, 1}
Calls == 1 .. MaxCalls

NoId == [t |-> -1, n |-> -1]
UnknownId == [t |-> 0, n |-> MaxConn]

VARIABLES
    connectionsKind,    \* "Array" (ssh-connection.ts:20) or "Map" (part_000:8)
    connections,        \* the registry, in insertion order
    connectionCounter,  \* per-manager counter used by generateConnectionId
    client,             \* state of the ssh2 Client created by attempt n
    config,             \* the credential store: servers and default_server
    disk,               \* the document in the configuration file
    now,                \* Date.now(), in milliseconds
    call,               \* the asynchronous connect / executeCommand calls
    last                \* the response of the last synchronous operation

vars == <<connectionsKind, connections, connectionCounter, client, config, disk,
          now, call, last>>

\* ------------------------------------------------------------ JS values
JsNumber(n) == [type |-> "number", v |-> n]
JsUndefined == [type |-> "undefined", v |-> 0]
JsNull == [type |-> "null", v |-> 0]

\* --------------------------------------- registry primitives, by kind
\* Array.prototype has values() and entries() but no get, set or delete,
\* and its `size` property is undefined.
HasMethod(kind, method) ==
    IF kind = "Map" THEN TRUE ELSE method \in {"values", "entries"}

RECURSIVE IndexOfId(_, _, _)
IndexOfId(m, id, i) ==
    IF i > Len(m) THEN 0
    ELSE IF m[i].id = id THEN i
    ELSE IndexOfId(m, id, i + 1)

MapHas(m, id) == IndexOfId(m, id, 1) # 0

MapGet(m, id) == m[IndexOfId(m, id, 1)]

\* A registry keyed by target name instead of by connection id.
MapSetByName(m, id, e) ==
    IF \E i \in 1 .. Len(m) : m[i].server_name = e.server_name
    THEN [i \in 1 .. Len(m) |-> IF m[i].server_name = e.server_name THEN e ELSE m[i]]
    ELSE Append(m, e)

MapSet(m, id, e) ==
    IF MapHas(m, id) THEN [m EXCEPT ![IndexOfId(m, id, 1)] = e]
    ELSE Append(m, e)

MapDelete(m, id) == SelectSeq(m, LAMBDA e : e.id # id)

Size(kind, m) == IF kind = "Map" THEN JsNumber(Len(m)) ELSE JsUndefined

\* ------------------------------------------------------ credential store
\* A document is what JSON.parse gives for the file: shape "store" is an
\* object with a `servers` object, "noServers" an object or array without
\* one ({} or []), "null" the value null, and "unparsable" a file whose text
\* is not JSON.  An entry is written by what it holds: "password" and
\* "key_path" have name, host and that credential, "readme" is an entry in
\* the format of the README (host, username and password, no name), "bare"
\* is what add_server stores for arguments without any field.
NoEntries == [k \in Keys |-> None]

EmptyStore == [shape |-> "store", servers |-> NoEntries, default_server |-> None]

Unparsable == [EmptyStore EXCEPT !.shape = "unparsable"]

\* A store written by add_server and set_default.
SavedStore ==
    [EmptyStore EXCEPT !.servers["a"] = "password", !.default_server = "a"]

\* Documents the constructor can find in the configuration file: stores the
\* program saved, a store written by hand after the README, a store whose
\* default names no entry, JSON values that are no store, and a text that
\* does not parse.
LoadedDocuments ==
    {EmptyStore,
     SavedStore,
     [EmptyStore EXCEPT !.servers["a"] = "readme"],
     [EmptyStore EXCEPT !.default_server = "a"],
     [EmptyStore EXCEPT !.shape = "noServers"],
     [EmptyStore EXCEPT !.shape = "null"],
     Unparsable}

\* The documents the program itself saved.
SavedDocuments == {EmptyStore, SavedStore}

\* loadConfig: the parsed document, whatever it is; the empty store when the
\* text does not parse.
loadConfig(file) == IF file.shape = "unparsable" THEN EmptyStore ELSE file

\* The value of an operation that threw a TypeError instead of returning.
Thrown == "TypeError"

\* The key of a property access obj[name]: the name as a string.
PropertyKey(name) == IF name = None THEN "undefined" ELSE name

\* The entry the store holds under a name (None when it holds none).
Entry(cfg, name) ==
    IF PropertyKey(name) \in Keys THEN cfg.servers[PropertyKey(name)] ELSE None

\* this.config.servers[name] on a plain object: the own entry, else the
\* property inherited from Object.prototype, else undefined.  Reading a
\* property of the undefined `servers`, or of null, throws.
Lookup(cfg, name) ==
    IF cfg.shape # "store" THEN Thrown
    ELSE IF Entry(cfg, name) # None THEN Entry(cfg, name)
    ELSE IF PropertyKey(name) \in PrototypeNames THEN "function"
    ELSE None

getServer(name) == Lookup(config, name)

\* this.config.default_server
getDefaultServer ==
    IF config.shape = "null" THEN Thrown ELSE config.default_server

\* ---------------------------------------------------------------- calls
\* The request handler has not returned.
NoReply == [kind |-> "none", isError |-> FALSE, text |-> <<"", "">>]

IdleCall ==
    [op |-> "none", arg |-> None, name |-> None, stage |-> "idle",
     outcome |-> "none", sess |-> NoId, opened |-> FALSE, timeout |-> 0,
     startTime |-> 0, connectedAt |-> 0, timer |-> "null", deadline |-> 0,
     duration |-> 0, connects |-> 0, execs |-> 0,
     stdout |-> << >>, stderr |-> << >>, exit_code |-> JsNull, wire |-> << >>,
     reply |-> NoReply]

NoResponse == [op |-> "none", err |-> "", disconnected |-> 0]

Init ==
    /\ connectionsKind \in {"Array", "Map"}
    /\ connections = << >>
    /\ connectionCounter = 0
    /\ client = [n \in 0 .. MaxConn - 1 |-> "unused"]
    /\ disk \in LoadedDocuments
    /\ config = loadConfig(disk)
    /\ now = 0
    /\ call = [c \in Calls |-> IdleCall]
    /\ last = NoResponse

\* The state after construction on a file that the program itself saved.
SavedInit == Init /\ disk \in SavedDocuments

\* The continuation of executeCommand after `await this.connect(...)` is a
\* microtask of a settled promise: it runs before the event loop serves a
\* timer or an event of a socket.
ContinuationPending ==
    \E c \in Calls : call[c].op = "execute" /\ call[c].stage = "connected"

\* When connect returned a registered session, its promise settled in the
\* turn of the caller: the statements that follow the call in its caller,
\* and requests whose handlers were queued in the same turn, run before the
\* continuation, and they take time.  When the promise was settled by the
\* ready handler, the continuation is the next thing to run after the
\* handler.
ReadyContinuationPending ==
    \E c \in Calls :
        call[c].op = "execute" /\ call[c].stage = "connected" /\ call[c].opened

\* A promise whose last resolve or reject wins.
SettleOverwrites(outcome, v) == v

\* A promise settles once: resolve and reject on a settled promise do nothing.
Settle(outcome, v) == IF outcome = "pending" THEN v ELSE outcome

\* An id made of the clock value alone.
generateConnectionIdClockOnly == [t |-> now, n |-> 0]

\* `${Date.now()}_${this.connectionCounter++}`
generateConnectionId == [t |-> now, n |-> connectionCounter]

\* The reuse scan of connect and getConnection: the first entry, in iteration
\* order, with the given server_name and connected = true (0 when none).
\* A scan with the liveness test inverted.
RECURSIVE FirstNotConnected(_, _, _)
FirstNotConnected(m, name, i) ==
    IF i > Len(m) THEN 0
    ELSE IF m[i].server_name = name /\ ~m[i].connected THEN i
    ELSE FirstNotConnected(m, name, i + 1)

RECURSIVE FirstConnected(_, _, _)
FirstConnected(m, name, i) ==
    IF i > Len(m) THEN 0
    ELSE IF m[i].server_name = name /\ m[i].connected THEN i
    ELSE FirstConnected(m, name, i + 1)

getConnection(server_name) ==
    LET i == FirstConnected(connections, server_name, 1)
    IN  IF i = 0 THEN NoId ELSE connections[i].id

\* The order of the checks of connect (lines 33-52): which way it goes for
\* the resolved name.  A TypeError thrown by the store rejects the call.
ConnectDecision(name) ==
    IF name = Thrown THEN "TypeError"
    ELSE IF name = None THEN "NoTargetError"
    ELSE IF getServer(name) = Thrown THEN "TypeError"
    ELSE IF getServer(name) = None THEN "UnknownServerError"
    ELSE IF FirstConnected(connections, name, 1) # 0 THEN "reuse"
    ELSE "open"

\* A resolution that prefers the store's default to the caller's argument.
ResolveNameDefaultFirst(arg) ==
    IF getDefaultServer # None THEN getDefaultServer ELSE arg

\* const name = server_name || this.configManager.getDefaultServer()
ResolveName(arg) == IF arg # None THEN arg ELSE getDefaultServer

\* connect(server_name?) up to the point where it returns its promise: the
\* body of an async function without await, and the promise executor, run
\* synchronously.  base is the call's record as its caller prepared it.
Connect(c, base, arg) ==
    LET name == ResolveName(arg)
        rec  == [base EXCEPT !.arg = arg,
                             !.name = IF name = Thrown THEN None ELSE name,
                             !.connects = @ + 1]
        way  == ConnectDecision(name)
        id   == generateConnectionId
    IN  IF way \in {"NoTargetError", "UnknownServerError", "TypeError"}
        THEN /\ call' = [call EXCEPT ![c] =
                    [rec EXCEPT !.stage = "failed", !.outcome = way]]
             /\ UNCHANGED <<connections, connectionCounter, client>>
        ELSE IF way = "reuse"
        THEN /\ call' = [call EXCEPT ![c] =
                    [rec EXCEPT !.stage = "connected",
                                !.sess = getConnection(name),
                                !.connectedAt = now,
                                !.outcome = IF rec.op = "connect" THEN "session"
                                            ELSE "pending"]]
             /\ UNCHANGED <<connections, connectionCounter, client>>
        ELSE /\ connectionCounter < MaxConn
             /\ connectionCounter' = connectionCounter + 1
             /\ \E keyRead \in (IF getServer(name) = "key_path"
                                THEN {"ok", "throws"} ELSE {"ok"}) :
                    IF keyRead = "throws"
                    THEN /\ call' = [call EXCEPT ![c] =
                                [rec EXCEPT !.stage = "failed",
                                            !.outcome = "KeyReadError"]]
                         /\ UNCHANGED client
                    ELSE /\ call' = [call EXCEPT ![c] =
                                [rec EXCEPT !.stage = "handshake", !.sess = id,
                                            !.opened = TRUE,
                                            !.outcome = "pending"]]
                         /\ client' = [client EXCEPT ![id.n] = "connecting"]
             /\ UNCHANGED connections

\* Calls are taken in order of their index (they are interchangeable).
CanStart(c) ==
    /\ ~ReadyContinuationPending
    /\ call[c].stage = "idle"
    /\ \A d \in Calls : d < c => call[d].stage # "idle"

StartConnect(c, arg) ==
    /\ CanStart(c)
    /\ Connect(c, [IdleCall EXCEPT !.op = "connect"], arg)
    /\ UNCHANGED <<connectionsKind, config, disk, now, last>>

\* The transport's "ready" event.
Ready(c) ==
    /\ ~ContinuationPending
    /\ call[c].stage = "handshake"
    /\ client' = [client EXCEPT ![call[c].sess.n] = "ready"]
    /\ IF HasMethod(connectionsKind, "set")
       THEN /\ connections' = MapSet(connections, call[c].sess,
                    [id |-> call[c].sess, server_name |-> call[c].name,
                     connected |-> TRUE, connected_at |-> call[c].sess.t])
            /\ call' = [call EXCEPT ![c].stage = "connected",
                    ![c].connectedAt = now,
                    ![c].outcome = IF call[c].op = "connect"
                                   THEN Settle(call[c].outcome, "session")
                                   ELSE call[c].outcome]
       ELSE /\ call' = [call EXCEPT ![c].stage = "threw"]
            /\ UNCHANGED connections
    /\ UNCHANGED <<connectionsKind, connectionCounter, config, disk, now, last>>

\* An error handler that files the failed attempt in the registry.
ConnectErrorRegisters(c) ==
    /\ ~ContinuationPending
    /\ call[c].stage = "handshake"
    /\ client' = [client EXCEPT ![call[c].sess.n] = "failed"]
    /\ connections' = Append(connections,
            [id |-> call[c].sess, server_name |-> call[c].name,
             connected |-> FALSE, connected_at |-> call[c].sess.t])
    /\ call' = [call EXCEPT ![c].stage = "failed",
                            ![c].outcome = Settle(call[c].outcome, "ConnectionError")]
    /\ UNCHANGED <<connectionsKind, connectionCounter, config, disk, now, last>>

\* The transport's "error" event before "ready".
ConnectError(c) ==
    /\ ~ContinuationPending
    /\ call[c].stage = "handshake"
    /\ client' = [client EXCEPT ![call[c].sess.n] = "failed"]
    /\ call' = [call EXCEPT ![c].stage = "failed",
                            ![c].outcome = Settle(call[c].outcome, "ConnectionError")]
    /\ UNCHANGED <<connectionsKind, connections, connectionCounter, config, disk, now, last>>

\* An error handler that removes the failed session from the registry.
PostReadyErrorPrunes(c) ==
    /\ ~ContinuationPending
    /\ call[c].opened
    /\ client[call[c].sess.n] = "ready"
    /\ client' = [client EXCEPT ![call[c].sess.n] = "failed"]
    /\ connections' = MapDelete(connections, call[c].sess)
    /\ call' = IF call[c].stage = "threw"
               THEN [call EXCEPT ![c].stage = "failed",
                        ![c].outcome = Settle(call[c].outcome, "ConnectionError")]
               ELSE call
    /\ UNCHANGED <<connectionsKind, connectionCounter, config, disk, now, last>>

\* An "error" event of a transport that was ready.  The handler's reject
\* only has an effect while the connect promise is still pending, which is
\* the case when the ready handler threw; the registry is not touched.
PostReadyError(c) ==
    /\ ~ContinuationPending
    /\ call[c].opened
    /\ client[call[c].sess.n] = "ready"
    /\ client' = [client EXCEPT ![call[c].sess.n] = "failed"]
    /\ call' = IF call[c].stage = "threw"
               THEN [call EXCEPT ![c].stage = "failed",
                        ![c].outcome = Settle(call[c].outcome, "ConnectionError")]
               ELSE call
    /\ UNCHANGED <<connectionsKind, connections, connectionCounter, config, disk, now, last>>

\* ------------------------------------------------------------ disconnect
\* The bulk branch: a Map iterator visits every entry even though the
\* entry just visited is deleted.
RECURSIVE DisconnectAll(_, _, _)
DisconnectAll(m, cl, count) ==
    IF m = << >>
    THEN [connections |-> m, client |-> cl, count |-> count]
    ELSE DisconnectAll(MapDelete(m, Head(m).id),
                       [cl EXCEPT ![Head(m).id.n] = "ended"], count + 1)

\* A disconnect that also ends the transports whose handshake is pending and
\* fails their calls.
DisconnectCancelsPending(connection_id) ==
    /\ ~ReadyContinuationPending
    /\ LET r == DisconnectAll(connections, client, 0)
           pending == {c \in Calls : call[c].stage = "handshake"}
       IN  /\ connections' = r.connections
           /\ client' = [n \in DOMAIN client |->
                            IF \E c \in pending : call[c].sess.n = n
                            THEN "ended" ELSE r.client[n]]
           /\ call' = [c \in Calls |->
                            IF c \in pending
                            THEN [call[c] EXCEPT !.stage = "failed",
                                                 !.outcome = "ConnectionError"]
                            ELSE call[c]]
           /\ last' = [NoResponse EXCEPT !.op = "disconnect",
                            !.disconnected = r.count]
    /\ UNCHANGED <<connectionsKind, connectionCounter, config, disk, now>>

Disconnect(connection_id) ==
    /\ ~ReadyContinuationPending
    /\ IF connection_id # NoId
       THEN IF ~HasMethod(connectionsKind, "get")
            THEN /\ last' = [NoResponse EXCEPT !.op = "disconnect", !.err = "TypeError",
                        !.disconnected = -1]
                 /\ UNCHANGED <<connections, client>>
            ELSE IF MapHas(connections, connection_id)
            THEN /\ client' = [client EXCEPT ![connection_id.n] = "ended"]
                 /\ connections' = MapDelete(connections, connection_id)
                 /\ last' = [NoResponse EXCEPT !.op = "disconnect", !.disconnected = 1]
            ELSE /\ last' = [NoResponse EXCEPT !.op = "disconnect", !.disconnected = 0]
                 /\ UNCHANGED <<connections, client>>
       ELSE IF connections # << >> /\ ~HasMethod(connectionsKind, "delete")
            THEN /\ last' = [NoResponse EXCEPT !.op = "disconnect",
                        !.err = "TypeError", !.disconnected = -1]
                 /\ UNCHANGED <<connections, client>>
            ELSE LET r == DisconnectAll(connections, client, 0)
                 IN  /\ connections' = r.connections
                     /\ client' = r.client
                     /\ last' = [NoResponse EXCEPT !.op = "disconnect",
                            !.disconnected = r.count]
    /\ UNCHANGED <<connectionsKind, connectionCounter, config, disk, now, call>>

\* Ids a caller can pass: none, one it was never given, one it was given.
KnownIds == {NoId, UnknownId} \cup {call[c].sess : c \in Calls}

getStatus ==
    [connections |-> [i \in 1 .. Len(connections) |->
                        [id |-> connections[i].id,
                         server_name |-> connections[i].server_name,
                         connected |-> connections[i].connected,
                         connected_at |-> connections[i].connected_at]],
     total |-> Size(connectionsKind, connections)]

\* -------------------------------------------------------- executeCommand
\* First part, up to `await this.connect(server_name)`.
\* The parameter `timeout: number = 30`: the default replaces undefined.
TimeoutParam(v) == IF v.type = "undefined" THEN DefaultTimeout ELSE v.v

StartExecute(c, arg, timeout) ==
    /\ CanStart(c)
    /\ Cardinality({d \in Calls : call[d].op = "execute"}) < MaxExec
    /\ Connect(c, [IdleCall EXCEPT !.op = "execute",
                                   !.timeout = TimeoutParam(timeout),
                                   !.startTime = now], arg)
    /\ UNCHANGED <<connectionsKind, config, disk, now, last>>

\* cleanup(): if (timer) clearTimeout(timer)
cleanup(timer) == IF timer = "armed" THEN "cleared" ELSE timer

\* A timer armed for a zero timeout too.
ExecStartAlwaysArms(c) ==
    /\ call[c].op = "execute"
    /\ call[c].stage = "connected"
    /\ LET armed == [call[c] EXCEPT
                        !.timer = IF call[c].timeout >= 0 THEN "armed" ELSE "null",
                        !.deadline = IF call[c].timeout >= 0
                                     THEN now + call[c].timeout * MsPerSecond
                                     ELSE 0,
                        !.execs = @ + 1]
       IN  \E r \in (IF client[call[c].sess.n] = "ready"
                     THEN {"issued"} ELSE {"issued", "throws"}) :
               call' = [call EXCEPT ![c] =
                   IF r = "throws"
                   THEN [armed EXCEPT !.stage = "execThrew",
                            !.outcome = Settle(armed.outcome, "NotConnectedError")]
                   ELSE [armed EXCEPT !.stage = "execIssued"]]
    /\ UNCHANGED <<connectionsKind, connections, connectionCounter, client, config, disk,
                   now, last>>

\* A timer whose delay is counted from the start of the call.
ExecStartFromCallStart(c) ==
    /\ call[c].op = "execute"
    /\ call[c].stage = "connected"
    /\ LET armed == [call[c] EXCEPT
                        !.timer = IF call[c].timeout > 0 THEN "armed" ELSE "null",
                        !.deadline = IF call[c].timeout > 0
                                     THEN call[c].startTime + call[c].timeout * MsPerSecond
                                     ELSE 0,
                        !.execs = @ + 1]
       IN  \E r \in (IF client[call[c].sess.n] = "ready"
                     THEN {"issued"} ELSE {"issued", "throws"}) :
               call' = [call EXCEPT ![c] =
                   IF r = "throws"
                   THEN [armed EXCEPT !.stage = "execThrew",
                            !.outcome = Settle(armed.outcome, "NotConnectedError")]
                   ELSE [armed EXCEPT !.stage = "execIssued"]]
    /\ UNCHANGED <<connectionsKind, connections, connectionCounter, client, config, disk,
                   now, last>>

\* The continuation after the await: the promise executor arms the timer
\* and calls client.exec, which throws when the client is not connected.
ExecStart(c) ==
    /\ call[c].op = "execute"
    /\ call[c].stage = "connected"
    /\ LET armed == [call[c] EXCEPT
                        !.timer = IF call[c].timeout > 0 THEN "armed" ELSE "null",
                        !.deadline = IF call[c].timeout > 0
                                     THEN now + call[c].timeout * MsPerSecond
                                     ELSE 0,
                        !.execs = @ + 1]
       IN  \E r \in (IF client[call[c].sess.n] = "ready"
                     THEN {"issued"} ELSE {"issued", "throws"}) :
               call' = [call EXCEPT ![c] =
                   IF r = "throws"
                   THEN [armed EXCEPT !.stage = "execThrew",
                            !.outcome = Settle(armed.outcome, "NotConnectedError")]
                   ELSE [armed EXCEPT !.stage = "execIssued"]]
    /\ UNCHANGED <<connectionsKind, connections, connectionCounter, client, config, disk,
                   now, last>>

\* A timer callback that does not reject.
TimerFireSilent(c) ==
    /\ ~ContinuationPending
    /\ call[c].timer = "armed"
    /\ now >= call[c].deadline
    /\ call' = [call EXCEPT ![c].timer = "fired"]
    /\ UNCHANGED <<connectionsKind, connections, connectionCounter, client, config,
                   disk, now, last>>

\* The timer callback.
TimerFire(c) ==
    /\ ~ContinuationPending
    /\ call[c].timer = "armed"
    /\ now >= call[c].deadline
    /\ call' = [call EXCEPT ![c].timer = "fired",
                    ![c].outcome = Settle(call[c].outcome, "CommandTimeoutError")]
    /\ UNCHANGED <<connectionsKind, connections, connectionCounter, client, config, disk,
                   now, last>>

\* An exec callback that issues the request again when it gets an error.
ExecCallbackErrorRetries(c) ==
    /\ ~ContinuationPending
    /\ call[c].stage = "execIssued"
    /\ call' = [call EXCEPT ![c].execs = @ + 1]
    /\ UNCHANGED <<connectionsKind, connections, connectionCounter, client, config,
                   disk, now, last>>

\* The exec callback with an error.
ExecCallbackError(c) ==
    /\ ~ContinuationPending
    /\ call[c].stage = "execIssued"
    /\ call' = [call EXCEPT ![c].stage = "execFailed",
                    ![c].timer = cleanup(call[c].timer),
                    ![c].outcome = Settle(call[c].outcome, "ExecStartError")]
    /\ UNCHANGED <<connectionsKind, connections, connectionCounter, client, config, disk,
                   now, last>>

\* The exec callback with a stream: the data and close handlers are attached.
ExecCallbackStream(c) ==
    /\ ~ContinuationPending
    /\ call[c].stage = "execIssued"
    /\ call' = [call EXCEPT ![c].stage = "streaming"]
    /\ UNCHANGED <<connectionsKind, connections, connectionCounter, client, config, disk,
                   now, last>>

\* ------------------------------------------------------- stream capture
\* The chunks the transport delivers are buffers of bytes: "a" is an ASCII
\* byte, "L" and "T" are the lead and the trail byte of a two-byte character.
Chunks == {<<"a">>, <<"L", "T">>, <<"L">>, <<"T">>}

\* Buffer.prototype.toString(): the UTF-8 text of one buffer.  A lead byte
\* with its trail byte is the character "e'"; a lead byte without it and a
\* trail byte on its own each become the replacement character "?".
RECURSIVE toString(_)
toString(data) ==
    IF data = << >> THEN << >>
    ELSE IF Head(data) = "a" THEN <<"a">> \o toString(Tail(data))
    ELSE IF Head(data) = "L" /\ Len(data) > 1 /\ data[2] = "T"
    THEN <<"e'">> \o toString(Tail(Tail(data)))
    ELSE <<"?">> \o toString(Tail(data))

\* Chunks delivered so far to all calls.
RECURSIVE DeliveredUpTo(_)
DeliveredUpTo(c) ==
    IF c = 0 THEN 0 ELSE Len(call[c].wire) + DeliveredUpTo(c - 1)

Delivered == DeliveredUpTo(MaxCalls)

\* A standard-error handler that appends to the standard-output text.
StderrDataIntoStdout(c, data) ==
    /\ ~ContinuationPending
    /\ call[c].stage = "streaming"
    /\ call' = [call EXCEPT ![c].stdout = @ \o toString(data),
                            ![c].wire = Append(@, <<"stderr", data>>)]
    /\ UNCHANGED <<connectionsKind, connections, connectionCounter, client, config,
                   disk, now, last>>

\* stream.on("data"): stdout += data.toString().  wire is the history of the
\* chunks the transport delivered to the call, in arrival order.
StdoutData(c, data) ==
    /\ ~ContinuationPending
    /\ call[c].stage = "streaming"
    /\ call' = [call EXCEPT ![c].stdout = @ \o toString(data),
                            ![c].wire = Append(@, <<"stdout", data>>)]
    /\ UNCHANGED <<connectionsKind, connections, connectionCounter, client, config,
                   disk, now, last>>

\* stream.stderr.on("data"): stderr += data.toString()
StderrData(c, data) ==
    /\ ~ContinuationPending
    /\ call[c].stage = "streaming"
    /\ call' = [call EXCEPT ![c].stderr = @ \o toString(data),
                            ![c].wire = Append(@, <<"stderr", data>>)]
    /\ UNCHANGED <<connectionsKind, connections, connectionCounter, client, config,
                   disk, now, last>>

\* The codes a close event carries: the exit status, or null when the remote
\* process ended without one.
ExitCodes == {JsNumber(0), JsNumber(1), JsNull}

\* The stream's "close" event, with the code it carries.
StreamClose(c, code) ==
    /\ ~ContinuationPending
    /\ call[c].stage = "streaming"
    /\ call' = [call EXCEPT ![c].stage = "closed",
                    ![c].timer = cleanup(call[c].timer),
                    ![c].exit_code = code,
                    ![c].outcome = Settle(call[c].outcome, "result"),
                    ![c].duration = IF call[c].outcome = "pending"
                                    THEN now - call[c].startTime ELSE 0]
    /\ UNCHANGED <<connectionsKind, connections, connectionCounter, client, config,
                   disk, now, last>>

\* ----------------------------------------------------------------- clock
\* One second passes.  A continuation that the ready handler queued runs
\* right after the handler, before the clock moves on.  The continuation of
\* a call that was handed a registered session waits for the synchronous
\* statements of its caller, which take time; a timer that is due waits for
\* the event loop to come to its callback.
Tick ==
    /\ now < MaxTime * MsPerSecond
    /\ ~ReadyContinuationPending
    /\ now' = now + MsPerSecond
    /\ UNCHANGED <<connectionsKind, connections, connectionCounter, client, config, disk,
                   call, last>>

\* ------------------------------------------------- credential store ops
AuthKinds == {"password", "key_path"}

\* What writeFileSync does to the file: it replaces the document, it throws
\* and leaves the file as it was, or it throws after the file was truncated
\* and leaves a text that does not parse.
WriteOutcomes == {"written", "failed", "truncated"}

\* saveConfig: the file's content after the write.
saveConfig(doc, write) ==
    IF write = "written" THEN doc
    ELSE IF write = "failed" THEN disk
    ELSE Unparsable

\* The response of a mutating operation after saveConfig: its error is
\* rethrown.
Saved(op, write) ==
    [NoResponse EXCEPT !.op = op,
                       !.err = IF write = "written" THEN "" ELSE "PersistenceError"]

\* this.config.servers[config.name] = serverConfig
AddedConfig(cfg, name, auth) == [cfg EXCEPT !.servers[PropertyKey(name)] = auth]

\* delete this.config.servers[name]; the default is cleared when it is name.
DeletedConfig(cfg, name) ==
    [cfg EXCEPT !.servers = [k \in Keys |-> IF k = PropertyKey(name) THEN None
                                            ELSE cfg.servers[k]],
                !.default_server = IF cfg.default_server = name THEN None
                                   ELSE cfg.default_server]

\* An add without the duplicate check.
addServerOverwrites(name, auth, write) ==
    /\ ~ReadyContinuationPending
    /\ IF getServer(name) = Thrown
       THEN /\ last' = [NoResponse EXCEPT !.op = "add_server", !.err = "TypeError"]
            /\ UNCHANGED <<config, disk>>
       ELSE /\ config' = AddedConfig(config, name, auth)
            /\ disk' = saveConfig(config', write)
            /\ last' = Saved("add_server", write)
    /\ UNCHANGED <<connectionsKind, connections, connectionCounter, client, now, call>>

\* The duplicate check is the lookup this.config.servers[name]; the
\* in-memory store is assigned first, then saved.
addServer(name, auth, write) ==
    /\ ~ReadyContinuationPending
    /\ IF getServer(name) = Thrown
       THEN /\ last' = [NoResponse EXCEPT !.op = "add_server", !.err = "TypeError"]
            /\ UNCHANGED <<config, disk>>
       ELSE IF getServer(name) # None
       THEN /\ last' = [NoResponse EXCEPT !.op = "add_server",
                                          !.err = "DuplicateServerError"]
            /\ UNCHANGED <<config, disk>>
       ELSE /\ config' = AddedConfig(config, name, auth)
            /\ disk' = saveConfig(config', write)
            /\ last' = Saved("add_server", write)
    /\ UNCHANGED <<connectionsKind, connections, connectionCounter, client, now, call>>

deleteServer(name, write) ==
    /\ ~ReadyContinuationPending
    /\ IF getServer(name) = Thrown
       THEN /\ last' = [NoResponse EXCEPT !.op = "delete_server", !.err = "TypeError"]
            /\ UNCHANGED <<config, disk>>
       ELSE IF getServer(name) = None
       THEN /\ last' = [NoResponse EXCEPT !.op = "delete_server",
                                          !.err = "ServerNotFoundError"]
            /\ UNCHANGED <<config, disk>>
       ELSE /\ config' = DeletedConfig(config, name)
            /\ disk' = saveConfig(config', write)
            /\ last' = Saved("delete_server", write)
    /\ UNCHANGED <<connectionsKind, connections, connectionCounter, client, now, call>>

setDefaultServer(name, write) ==
    /\ ~ReadyContinuationPending
    /\ IF getServer(name) = Thrown
       THEN /\ last' = [NoResponse EXCEPT !.op = "set_default", !.err = "TypeError"]
            /\ UNCHANGED <<config, disk>>
       ELSE IF getServer(name) = None
       THEN /\ last' = [NoResponse EXCEPT !.op = "set_default",
                                          !.err = "ServerNotFoundError"]
            /\ UNCHANGED <<config, disk>>
       ELSE /\ config' = [config EXCEPT !.default_server = name]
            /\ disk' = saveConfig(config', write)
            /\ last' = Saved("set_default", write)
    /\ UNCHANGED <<connectionsKind, connections, connectionCounter, client, now, call>>

\* The keyword of a list_servers request: a string (its characters), a
\* number, or absent.
JsString(chars) == [type |-> "string", s |-> chars, n |-> 0]

JsNum(k) == [type |-> "number", s |-> <<>>, n |-> k]

NoKeyword == [type |-> "undefined", s |-> <<>>, n |-> 0]

Keywords == {NoKeyword, JsString(<<>>), JsString(<<"a">>), JsNum(0), JsNum(1)}

\* if (keyword): the empty string, 0 and undefined are falsy.
Truthy(keyword) ==
    CASE keyword.type = "string" -> Len(keyword.s) > 0
      [] keyword.type = "number" -> keyword.n # 0
      [] OTHER -> FALSE

\* listServers(keyword): Object.values of the entries, filtered under
\* `if (keyword)` by keyword.toLowerCase() against s.name.toLowerCase(),
\* which throw a TypeError for a keyword that is not a string and for an
\* entry without a name.
listServers(keyword) ==
    /\ ~ReadyContinuationPending
    /\ last' = [NoResponse EXCEPT !.op = "list_servers", !.err =
            IF config.shape # "store" THEN "TypeError"
            ELSE IF ~Truthy(keyword) THEN ""
            ELSE IF keyword.type # "string" THEN "TypeError"
            ELSE IF \E k \in Keys : config.servers[k] \in {"readme", "bare"}
            THEN "TypeError"
            ELSE ""]
    /\ UNCHANGED <<connectionsKind, connections, connectionCounter, client, config,
                   disk, now, call>>

\* ------------------------------------------------------- tool dispatcher
\* The request handler of the tool server (dist/index.js): it takes the
\* tool's name and arguments from the request and runs the operation inside
\* one try block whose catch turns whatever was thrown into the error
\* payload.
ToolNames ==
    {"ssh_connect", "ssh_disconnect", "ssh_execute", "ssh_get_status",
     "ssh_list_servers", "ssh_add_server", "ssh_delete_server", "ssh_set_default"}

\* A name that is not a tool.
UnknownTool == "ssh_reboot"

\* What the handler returns: the text of the result, or in the catch the
\* text of {error: message} flagged isError.
ToolReply(err, result) ==
    IF err = ""
    THEN [kind |-> "payload", isError |-> FALSE, text |-> <<"result", result>>]
    ELSE [kind |-> "payload", isError |-> TRUE, text |-> <<"error", err>>]

\* The reply to the last synchronous tool call.
LastReply == ToolReply(last.err, last.op)

\* JSON.stringify(result, null, 2) inside the try block.  The session that
\* connect returns holds the transport's Client object, whose fields are the
\* transport library's: it is turned into text, or JSON.stringify throws a
\* TypeError on it.  The result of executeCommand is plain data.
JsonOutcomes(c) ==
    IF call[c].outcome = "session" THEN {"text", "throws"} ELSE {"text"}

\* The reply to a connect or execute request whose awaited promise has
\* settled: a rejection and a throw of JSON.stringify go to the catch.
CallReply(c, json) ==
    ToolReply(IF call[c].outcome \in {"session", "result"}
              THEN (IF json = "throws" THEN "TypeError" ELSE "")
              ELSE call[c].outcome,
              call[c].op)

\* A catch block that returns the error's text without the error flag.
HandlerReturnUnflagged(c) ==
    /\ call[c].outcome \notin {"none", "pending"}
    /\ call[c].reply = NoReply
    /\ \E json \in JsonOutcomes(c) :
            call' = [call EXCEPT ![c].reply =
                        [CallReply(c, json) EXCEPT !.isError = FALSE]]
    /\ UNCHANGED <<connectionsKind, connections, connectionCounter, client, config,
                   disk, now, last>>

\* The handler's continuation after `await sshManager.connect(...)` or
\* `await sshManager.executeCommand(...)`: it returns the reply.
HandlerReturn(c) ==
    /\ call[c].outcome \notin {"none", "pending"}
    /\ call[c].reply = NoReply
    /\ \E json \in JsonOutcomes(c) :
            call' = [call EXCEPT ![c].reply = CallReply(c, json)]
    /\ UNCHANGED <<connectionsKind, connections, connectionCounter, client, config,
                   disk, now, last>>

\* The operation threw before it changed anything, or has only a result.
Responds(op, err) ==
    /\ ~ReadyContinuationPending
    /\ last' = [NoResponse EXCEPT !.op = op, !.err = err]
    /\ UNCHANGED <<connectionsKind, connections, connectionCounter, client, config,
                   disk, now, call>>

\* The arguments of the add_server requests: a credential with a password,
\* one with a key file, one named like a property of Object.prototype, and
\* an object without any field.
AddInputs ==
    ServerInputs \cup {<<"constructor", "password">>, <<None, "bare">>}

\* The values of the timeout argument of executeCommand: absent, zero or
\* positive.
TimeoutValues == {JsUndefined} \cup {JsNumber(n) : n \in TimeoutArgs}

\* One request.  hasArgs = FALSE is a request without arguments: `args?.x`
\* is then undefined and `args.x` throws a TypeError inside the try block.
\* write is what the file system does if the request writes the file.
CallTool(name, hasArgs, write) ==
    CASE name = "ssh_connect" ->
            \E c \in Calls, arg \in (IF hasArgs THEN CallerNames \cup {None}
                                     ELSE {None}) :
                StartConnect(c, arg)
      [] name = "ssh_disconnect" ->
            \E id \in (IF hasArgs THEN KnownIds ELSE {NoId}) : Disconnect(id)
      [] name = "ssh_execute" ->
            IF hasArgs
            THEN \E c \in Calls, arg \in CallerNames \cup {None},
                    t \in TimeoutValues :
                      StartExecute(c, arg, t)
            ELSE Responds(name, "TypeError")
      [] name = "ssh_get_status" -> Responds(name, "")
      [] name = "ssh_list_servers" ->
            \E keyword \in (IF hasArgs THEN Keywords ELSE {NoKeyword}) :
                listServers(keyword)
      [] name = "ssh_add_server" ->
            IF hasArgs
            THEN \E in \in AddInputs : addServer(in[1], in[2], write)
            ELSE Responds(name, "TypeError")
      [] name = "ssh_delete_server" ->
            IF hasArgs
            THEN \E n \in CallerNames \cup {None} : deleteServer(n, write)
            ELSE Responds(name, "TypeError")
      [] name = "ssh_set_default" ->
            IF hasArgs
            THEN \E n \in CallerNames \cup {None} : setDefaultServer(n, write)
            ELSE Responds(name, "TypeError")
      [] OTHER -> Responds(name, "UnknownToolError")

\* -------------------------------------------------------- specifications
\* The connection lifecycle: connect, the transport's events, disconnect and
\* the credential store's operations.
Next ==
    \/ \E c \in Calls, arg \in Names \cup {None} : StartConnect(c, arg)
    \/ \E c \in Calls : Ready(c)
    \/ \E c \in Calls : ConnectError(c)
    \/ \E c \in Calls : PostReadyError(c)
    \/ \E id \in KnownIds : Disconnect(id)
    \/ \E in \in ServerInputs : addServer(in[1], in[2], "written")
    \/ \E n \in Names : deleteServer(n, "written")
    \/ \E n \in Names : setDefaultServer(n, "written")

Spec == SavedInit /\ [][Next]_vars

\* The credential store alone: add_server with and without a name,
\* operations on a name that Object.prototype has, list_servers, and writes
\* of the configuration file that fail.
StoreNext ==
    \/ \E in \in AddInputs, write \in WriteOutcomes :
            addServer(in[1], in[2], write)
    \/ \E n \in CallerNames \cup {None}, write \in WriteOutcomes :
            deleteServer(n, write)
    \/ \E n \in CallerNames \cup {None}, write \in WriteOutcomes :
            setDefaultServer(n, write)
    \/ \E keyword \in Keywords : listServers(keyword)

StoreSpec == Init /\ [][StoreNext]_vars

\* The tools whose requests the handler awaits.
AsyncTools == {"ssh_connect", "ssh_execute"}

\* The connect and execute requests served so far.
Requests == Cardinality({c \in Calls : call[c].stage # "idle"})

\* The tool server: requests for every tool name, with and without
\* arguments, in any order, the events of the transports, the timers and
\* the replies to the requests whose calls have settled.  The clock is
\* followed while a timer is armed.
DispatchNext ==
    \/ \E name \in ToolNames \cup {UnknownTool}, hasArgs \in BOOLEAN :
            /\ name \in AsyncTools => Requests < MaxRequests
            /\ CallTool(name, hasArgs, "written")
    \/ \E c \in Calls : Ready(c)
    \/ \E c \in Calls : ConnectError(c)
    \/ \E c \in Calls : PostReadyError(c)
    \/ \E c \in Calls : ExecStart(c)
    \/ \E c \in Calls : TimerFire(c)
    \/ \E c \in Calls : ExecCallbackError(c)
    \/ \E c \in Calls : ExecCallbackStream(c)
    \/ \E c \in Calls : StreamClose(c, JsNumber(0))
    \/ \E c \in Calls : HandlerReturn(c)
    \/ (\E c \in Calls : call[c].timer = "armed") /\ Tick

DispatchSpec == Init /\ [][DispatchNext]_vars

\* The output of a command: executeCommand calls whose streams deliver
\* chunks of both kinds in every order before they close.
StreamNext ==
    \/ \E c \in Calls, arg \in Names \cup {None} :
            StartExecute(c, arg, JsNumber(0))
    \/ \E c \in Calls : Ready(c)
    \/ \E c \in Calls : ConnectError(c)
    \/ \E c \in Calls : ExecStart(c)
    \/ \E c \in Calls : ExecCallbackError(c)
    \/ \E c \in Calls : ExecCallbackStream(c)
    \/ \E c \in Calls, data \in Chunks :
            Delivered < MaxChunks /\ StdoutData(c, data)
    \/ \E c \in Calls, data \in Chunks :
            Delivered < MaxChunks /\ StderrData(c, data)
    \/ \E c \in Calls, code \in ExitCodes : StreamClose(c, code)

StreamSpec == Init /\ [][StreamNext]_vars

\* Command execution: executeCommand calls, the transport's and the stream's
\* events, the timers, the clock and disconnect.
ExecNext ==
    \/ \E c \in Calls, arg \in Names, t \in TimeoutValues :
            StartExecute(c, arg, t)
    \/ \E c \in Calls : Ready(c)
    \/ \E c \in Calls : ConnectError(c)
    \/ \E c \in Calls : PostReadyError(c)
    \/ \E c \in Calls : ExecStart(c)
    \/ \E c \in Calls : TimerFire(c)
    \/ \E c \in Calls : ExecCallbackError(c)
    \/ \E c \in Calls : ExecCallbackStream(c)
    \/ \E c \in Calls : StreamClose(c, JsNumber(0))
    \/ \E id \in KnownIds : Disconnect(id)
    \/ Tick

ExecSpec == SavedInit /\ [][ExecNext]_vars

\* Command execution on sessions that connect calls opened before.
SessionNext ==
    \/ \E c \in Calls, arg \in Names \cup {None} : StartConnect(c, arg)
    \/ ExecNext

SessionSpec == Init /\ [][SessionNext]_vars

\* The names that have a credential in the store.
StoredNames == {n \in Names : Entry(config, n) # None}

\* The registry over the life of its sessions: connect and executeCommand
\* calls for the stored names, transports that fail after they were ready,
\* exec requests that fail, timeouts and disconnect.  The clock is followed
\* while a timer is armed.
RegistryNext ==
    \/ \E c \in Calls, arg \in StoredNames : StartConnect(c, arg)
    \/ \E c \in Calls, arg \in StoredNames : StartExecute(c, arg, JsNumber(1))
    \/ \E c \in Calls : Ready(c)
    \/ \E c \in Calls : PostReadyError(c)
    \/ \E c \in Calls : ExecStart(c)
    \/ \E c \in Calls : TimerFire(c)
    \/ \E c \in Calls : ExecCallbackError(c)
    \/ \E id \in KnownIds : Disconnect(id)
    \/ (\E c \in Calls : call[c].timer = "armed") /\ Tick

RegistrySpec == SavedInit /\ [][RegistryNext]_vars

\* Sessions and the credentials they were built from: connect and
\* executeCommand calls for every name, the store's operations and
\* disconnect.
CredentialNext ==
    \/ \E c \in Calls, arg \in CallerNames : StartConnect(c, arg)
    \/ \E c \in Calls, arg \in CallerNames : StartExecute(c, arg, JsNumber(0))
    \/ \E c \in Calls : Ready(c)
    \/ \E c \in Calls : ExecStart(c)
    \/ \E id \in KnownIds : Disconnect(id)
    \/ \E in \in ServerInputs : addServer(in[1], in[2], "written")
    \/ \E n \in CallerNames : deleteServer(n, "written")
    \/ \E n \in CallerNames : setDefaultServer(n, "written")

CredentialSpec == Init /\ [][CredentialNext]_vars

\* Disconnect against connect attempts in flight: the connect calls are all
\* issued before the first disconnect; disconnect is called for all sessions
\* and with the id of an attempt whose handshake is pending.
RaceNext ==
    \/ \E c \in Calls, arg \in Names \cup {None} :
            last = NoResponse /\ StartConnect(c, arg)
    \/ \E c \in Calls : Ready(c)
    \/ \E c \in Calls : ConnectError(c)
    \/ Disconnect(NoId)
    \/ \E c \in Calls : call[c].stage = "handshake" /\ Disconnect(call[c].sess)

RaceSpec == Init /\ [][RaceNext]_vars

\* Waiting for a command: executeCommand calls for the stored names with a
\* zero and a positive timeout, a remote side that may or may not answer,
\* and disconnect.
WaitNext ==
    \/ \E c \in Calls, arg \in StoredNames, n \in TimeoutArgs :
            StartExecute(c, arg, JsNumber(n))
    \/ \E c \in Calls : Ready(c)
    \/ \E c \in Calls : ExecStart(c)
    \/ \E c \in Calls : TimerFire(c)
    \/ \E c \in Calls : ExecCallbackError(c)
    \/ \E c \in Calls : ExecCallbackStream(c)
    \/ \E c \in Calls : StreamClose(c, JsNumber(0))
    \/ \E id \in KnownIds : Disconnect(id)
    \/ Tick

\* The event loop runs the continuation of a settled promise and the
\* callback of a timer that is due, and time passes.  Nothing obliges the
\* remote side or the callers to act.
WaitSpec ==
    /\ SavedInit
    /\ [][WaitNext]_vars
    /\ WF_vars(Tick)
    /\ \A c \in Calls : WF_vars(ExecStart(c)) /\ WF_vars(TimerFire(c))

\* ================================================================ claims
\* Call c starts in this step.
Starts(c) == call[c].stage = "idle" /\ call'[c].stage # "idle"

\* The ids of the registered sessions for a target that are connected.
LiveSessions(name) ==
    {connections[i].id : i \in {j \in 1 .. Len(connections) :
        connections[j].server_name = name /\ connections[j].connected}}

\* The store holds a credential under the name.
Stored(name) == Entry(config, name) # None

\* C1 (sequential reuse): a connect(name) that starts while the registry
\* holds a connected session for name, and name still has a credential,
\* returns a session already registered for name (hence the same id when, as
\* after sequential calls, only one is registered), opens no transport,
\* takes no new id and leaves the registry as it is.
C1_SequentialReuse ==
    [][\A c \in Calls :
          (/\ Starts(c)
           /\ call'[c].op = "connect"
           /\ call'[c].name # None
           /\ Stored(call'[c].name)
           /\ LiveSessions(call'[c].name) # {})
          => /\ call'[c].outcome = "session"
             /\ call'[c].sess \in LiveSessions(call'[c].name)
             /\ ~call'[c].opened
             /\ connectionCounter' = connectionCounter
             /\ connections' = connections
             /\ client' = client]_vars

\* Two sequential connects to one target: the second returned the id the
\* first registered, and one transport was opened in all.
C1_Witness ==
    \E c, d \in Calls :
        /\ d < c
        /\ call[d].opened /\ call[d].outcome = "session"
        /\ call[c].outcome = "session" /\ ~call[c].opened
        /\ call[c].name = call[d].name
        /\ call[c].sess = call[d].sess
        /\ connectionCounter = 1
        /\ Len(connections) = 1

\* C2 (connect race): a connect that starts while no connected session is
\* registered for its target opens a transport of its own (unless reading the
\* key file fails), also when another attempt for the same target is still in
\* its handshake; and each handshake that succeeds appends its session to the
\* registry whatever the registry already holds for that target.
C2_ConnectRace ==
    [][\A c \in Calls :
          /\ (/\ Starts(c)
              /\ call'[c].name # None
              /\ Stored(call'[c].name)
              /\ LiveSessions(call'[c].name) = {})
             => \/ call'[c].outcome = "KeyReadError"
                \/ /\ call'[c].stage = "handshake"
                   /\ call'[c].opened
                   /\ call'[c].sess.n = connectionCounter
                   /\ client[call'[c].sess.n] = "unused"
                   /\ client'[call'[c].sess.n] = "connecting"
          /\ (call[c].stage = "handshake" /\ call'[c].stage = "connected")
             => connections' = Append(connections,
                    [id |-> call[c].sess, server_name |-> call[c].name,
                     connected |-> TRUE, connected_at |-> call[c].sess.t])]_vars

\* Two connected sessions for one target are registered.
C2_Witness ==
    \E i, j \in 1 .. Len(connections) :
        /\ i # j
        /\ connections[i].server_name = connections[j].server_name
        /\ connections[i].connected /\ connections[j].connected

\* C3 (registration on success): when the handshake of a connect attempt
\* succeeds, the call returns its session, the registry holds it under the
\* attempt's id with server_name = name and connected = true, and getStatus
\* lists it with total one more than before.
C3_RegistrationOnSuccess ==
    [][\A c \in Calls :
          (/\ call[c].op = "connect"
           /\ call[c].stage = "handshake"
           /\ client'[call[c].sess.n] = "ready")
          => /\ call'[c].outcome = "session"
             /\ MapHas(connections', call[c].sess)
             /\ MapGet(connections', call[c].sess).server_name = call[c].name
             /\ MapGet(connections', call[c].sess).connected
             /\ getStatus'.total = JsNumber(Len(connections) + 1)
             /\ \E i \in 1 .. Len(getStatus'.connections) :
                    getStatus'.connections[i].id = call[c].sess]_vars

\* C4 (failed connect is never registered): the error event of a handshake
\* fails the call with the connection error and leaves the registry as it
\* is, and no failed attempt's id is ever in the registry.
C4_FailedConnectNeverRegistered ==
    [][\A c \in Calls :
          /\ (call[c].stage = "handshake" /\ client'[call[c].sess.n] = "failed")
             => /\ call'[c].outcome = "ConnectionError"
                /\ connections' = connections
          /\ (call'[c].opened /\ call'[c].stage = "failed")
             => ~MapHas(connections', call'[c].sess)]_vars

\* An attempt has failed while another session stays registered.
C4_Witness ==
    \E c \in Calls :
        /\ call[c].opened
        /\ call[c].outcome = "ConnectionError"
        /\ Len(connections) = 1

\* C5 (positive timeout): when the timer of a call that has not settled
\* fires, the call fails with the command-timeout error; a firing timer never
\* yields a result; and an outcome, once settled, never changes, so a close
\* event after the timeout does not turn the failure into a result.
C5_PositiveTimeout ==
    [][\A c \in Calls :
          /\ (call[c].timer = "armed" /\ call'[c].timer = "fired")
             => /\ call[c].timeout > 0
                /\ call[c].stage # "closed"
                /\ call[c].outcome = "pending"
                   => call'[c].outcome = "CommandTimeoutError"
                /\ call'[c].outcome # "result"
          /\ call[c].outcome \notin {"none", "pending"}
             => call'[c].outcome = call[c].outcome]_vars

\* The stream closed after the call had failed with the timeout error.
C5_Witness ==
    \E c \in Calls :
        /\ call[c].outcome = "CommandTimeoutError"
        /\ call[c].timer = "fired"
        /\ call[c].stage = "closed"

\* C6 (zero timeout): a call with timeout = 0 has no timer and never ends
\* with the command-timeout error; it is pending or ends with a result, a
\* connect failure or an exec-start failure.
C6_ZeroTimeout ==
    \A c \in Calls :
        (call[c].op = "execute" /\ call[c].timeout = 0)
        => /\ call[c].timer = "null"
           /\ call[c].outcome \in
                {"pending", "result", "NoTargetError", "UnknownServerError",
                 "TypeError", "KeyReadError", "ConnectionError",
                 "ExecStartError", "NotConnectedError"}

\* A call with timeout 0 returned a result although the remote process took
\* longer than every positive timeout of TimeoutArgs.
C6_Witness ==
    \E c \in Calls :
        /\ call[c].op = "execute" /\ call[c].timeout = 0
        /\ call[c].outcome = "result"
        /\ \A t \in TimeoutArgs :
              call[c].startTime + call[c].duration - call[c].connectedAt
                  > t * MsPerSecond

\* C7 as claimed: the timeout counts from the start of the call, so a call
\* with timeout T > 0 that returns a result took at most T seconds in all.
C7_TimeoutFromCallStart ==
    \A c \in Calls :
        (call[c].op = "execute" /\ call[c].timeout > 0 /\ call[c].outcome = "result")
        => call[c].duration <= call[c].timeout * MsPerSecond

\* C7 as amended: the timer is armed after the connect step has returned
\* its session, when the call goes on to its exec request, for T seconds
\* from then, so that the time spent connecting does not count: a call with
\* timeout T > 0 fails with the timeout error only when T seconds have
\* passed since the connect step returned, and a call that returns a result
\* has cleared its timer.
C7_TimeoutFromConnectReturn ==
    /\ [](\A c \in Calls :
            (call[c].op = "execute" /\ call[c].timeout > 0)
            => /\ call[c].timer # "null"
                  => call[c].deadline >=
                        call[c].connectedAt + call[c].timeout * MsPerSecond
               /\ call[c].outcome = "result" => call[c].timer = "cleared")
    /\ [][\A c \in Calls :
             /\ (call[c].timer = "null" /\ call'[c].timer = "armed")
                => /\ call[c].stage = "connected"
                   /\ call'[c].execs = call[c].execs + 1
                   /\ call'[c].deadline = now + call[c].timeout * MsPerSecond
             /\ (call[c].outcome = "pending"
                    /\ call'[c].outcome = "CommandTimeoutError")
                => now >= call[c].connectedAt + call[c].timeout * MsPerSecond]_vars

\* A call returned a result after more than T seconds in all, the remote
\* execution having taken less than T.
C7_Witness ==
    \E c \in Calls :
        /\ call[c].op = "execute" /\ call[c].timeout > 0
        /\ call[c].outcome = "result"
        /\ call[c].duration > call[c].timeout * MsPerSecond
        /\ call[c].startTime + call[c].duration - call[c].connectedAt
              < call[c].timeout * MsPerSecond

\* C8 (bulk disconnect): disconnect() ends the transport of every registered
\* session, empties the registry and returns the number that were
\* registered; getStatus then reports total 0 and no connections.
C8_BulkDisconnect ==
    [][Disconnect(NoId)
       => /\ last'.err = ""
          /\ last'.disconnected = Len(connections)
          /\ \A i \in 1 .. Len(connections) :
                client'[connections[i].id.n] = "ended"
          /\ connections' = << >>
          /\ getStatus'.connections = << >>
          /\ getStatus'.total = JsNumber(0)]_vars

\* C9 (disconnect by id): for a registered id disconnect(id) returns 1 and
\* removes that entry alone; for an id that is not registered it returns 0
\* without error and changes nothing.
C9_DisconnectById ==
    [][\A id \in KnownIds \ {NoId} :
          Disconnect(id)
          => IF MapHas(connections, id)
             THEN /\ last'.err = ""
                  /\ last'.disconnected = 1
                  /\ connections' = SelectSeq(connections, LAMBDA e : e.id # id)
                  /\ Len(connections') = Len(connections) - 1
                  /\ client'[id.n] = "ended"
                  /\ \A n \in DOMAIN client : n # id.n => client'[n] = client[n]
             ELSE /\ last'.err = ""
                  /\ last'.disconnected = 0
                  /\ connections' = connections
                  /\ client' = client]_vars

\* C10 (unknown server): a connect with an explicit name under which the
\* store holds no credential fails with the unknown-server error, opens no
\* transport, takes no id and leaves the registry and the clients as they
\* are, whatever the registry holds for that name.
C10_UnknownServer ==
    [][\A c \in Calls :
          (/\ Starts(c)
           /\ config.shape = "store"
           /\ call'[c].arg # None
           /\ ~Stored(call'[c].arg))
          => /\ call'[c].outcome = "UnknownServerError"
             /\ call'[c].name = call'[c].arg
             /\ ~call'[c].opened
             /\ call'[c].sess = NoId
             /\ connectionCounter' = connectionCounter
             /\ connections' = connections
             /\ client' = client]_vars

\* C11 (target resolution): a connect with an explicit name uses that name;
\* a connect without a name uses the store's current default; without a name
\* and without a default it fails with the no-target error, opens no
\* transport, takes no id and leaves the registry as it is.
C11_TargetResolution ==
    [][\A c \in Calls :
          Starts(c)
          => /\ call'[c].arg # None => call'[c].name = call'[c].arg
             /\ (call'[c].arg = None /\ getDefaultServer \notin {None, Thrown})
                => /\ call'[c].name = getDefaultServer
                   /\ call'[c].outcome # "NoTargetError"
             /\ (call'[c].arg = None /\ getDefaultServer = None)
                => /\ call'[c].outcome = "NoTargetError"
                   /\ ~call'[c].opened
                   /\ connectionCounter' = connectionCounter
                   /\ connections' = connections
                   /\ client' = client]_vars

\* A connect without a name returned a session for "b", which is the default
\* only after add_server and set_default.
C11_Witness ==
    \E c \in Calls :
        /\ call[c].op = "connect"
        /\ call[c].arg = None
        /\ call[c].name = "b"
        /\ call[c].opened
        /\ call[c].outcome = "session"

\* C12 (duplicate add): add_server with a name the store already has fails
\* with the duplicate-server error and leaves every entry, the default and the
\* file as they are; the store maps a name to one entry.
C12_DuplicateAdd ==
    [][\A n \in CallerNames \cup {None}, auth \in AuthKinds \cup {"bare"},
          write \in WriteOutcomes :
          (addServer(n, auth, write) /\ Stored(n))
          => /\ last'.err = "DuplicateServerError"
             /\ config' = config
             /\ disk' = disk]_vars

\* A duplicate add was refused while both names had entries of different
\* kinds and the second was the default.
C12_Witness ==
    /\ last.op = "add_server"
    /\ last.err = "DuplicateServerError"
    /\ getServer("a") = "password"
    /\ getServer("b") = "key_path"
    /\ getDefaultServer = "b"

\* C13 (delete): delete_server(name) of an existing name removes that entry
\* alone and clears the default exactly when it is name; of a name the store
\* does not hold it fails with the server-not-found error and changes
\* nothing.
C13_DeleteServer ==
    [][\A n \in CallerNames, write \in WriteOutcomes :
          (deleteServer(n, write) /\ config.shape = "store")
          => IF ~Stored(n)
             THEN /\ last'.err = "ServerNotFoundError"
                  /\ config' = config
                  /\ disk' = disk
             ELSE /\ Entry(config', n) = None
                  /\ \A m \in Keys \ {n} : config'.servers[m] = config.servers[m]
                  /\ config'.default_server =
                        IF getDefaultServer = n THEN None ELSE getDefaultServer]_vars

\* The default is unset or names a credential of the store.
DefaultValid(cfg) ==
    \/ cfg.default_server = None
    \/ Entry(cfg, cfg.default_server) # None

\* C14 (default pointer): no add, delete or set_default, successful or
\* failing, makes the default name something the store does not hold, so
\* that from the empty store on the default is unset or names a credential
\* in the store; set_default of a name the store does not hold fails with
\* the server-not-found error and leaves the default as it is.
C14_DefaultPointer ==
    [][/\ DefaultValid(config) => DefaultValid(config')
       /\ \A n \in CallerNames, write \in WriteOutcomes :
             (setDefaultServer(n, write) /\ config.shape = "store" /\ ~Stored(n))
             => /\ last'.err = "ServerNotFoundError"
                /\ config' = config]_vars

\* C15 (failure atomicity): a mutating operation whose write of the file
\* fails ends in the persistence error, and the store it leaves is the store
\* before the call: an in-memory store that equals the document in the file
\* still equals it after the operation.
C15_FailureAtomicity ==
    [][/\ config = disk => config' = disk'
       /\ \A n \in CallerNames, write \in WriteOutcomes \ {"written"} :
             (\/ \E auth \in AuthKinds :
                    addServer(n, auth, write) /\ getServer(n) = None
              \/ deleteServer(n, write) /\ Stored(n)
              \/ setDefaultServer(n, write) /\ Stored(n))
             => /\ last'.err = "PersistenceError"
                /\ config' = config]_vars

\* The call's operation failed: its promise was rejected.
Rejected(c) == call[c].outcome \notin {"none", "pending", "session", "result"}

\* The tools whose operation returns before the handler does.
SyncTools == (ToolNames \cup {UnknownTool}) \ AsyncTools

C17_UniqueIds ==
    /\ [](\A c, d \in Calls :
            (c # d /\ call[c].opened /\ call[d].opened)
            => /\ call[c].sess # call[d].sess
               /\ call[c].sess.n # call[d].sess.n)
    /\ [](\A c \in Calls : call[c].opened => call[c].sess.n < connectionCounter)
    /\ [](\A i, j \in 1 .. Len(connections) :
            i # j => connections[i].id # connections[j].id)
    /\ [][/\ connectionCounter' >= connectionCounter
          /\ connectionCounter' # connectionCounter
             => \E c \in Calls : Starts(c)
          /\ \A c \in Calls :
                (Starts(c) /\ (call'[c].opened \/ call'[c].outcome = "KeyReadError"))
                => /\ connectionCounter' = connectionCounter + 1
                   /\ call'[c].opened => call'[c].sess.n = connectionCounter]_vars

\* Two attempts made at the same clock value, one failed and one registered.
C17_Witness ==
    \E c, d \in Calls :
        /\ c # d
        /\ call[c].opened /\ call[d].opened
        /\ call[c].sess.t = call[d].sess.t
        /\ call[c].outcome = "ConnectionError"
        /\ call[d].outcome = "session"
        /\ MapHas(connections, call[d].sess)

\* C18 (timer cleanup): once an executeCommand call has settled, by a result,
\* an exec-start failure, a timeout or a failure raised while the exec was
\* started, its timer is not armed.
C18_TimerCleanup ==
    \A c \in Calls :
        (call[c].op = "execute" /\ call[c].outcome \notin {"none", "pending"})
        => call[c].timer # "armed"

\* C19 (single attempt): an executeCommand call runs the connect procedure
\* once and calls exec at most once; what connect gave it (session, own
\* transport or failure) never changes afterwards, a new id is only taken by
\* a call that starts, and a call that has failed neither connects nor
\* issues the command again.
C19_SingleAttempt ==
    /\ [](\A c \in Calls :
            /\ call[c].connects <= 1
            /\ call[c].execs <= 1
            /\ call[c].stage # "idle" => call[c].connects = 1)
    /\ [][/\ connectionCounter' # connectionCounter
             => \E c \in Calls : Starts(c)
          /\ \A c \in Calls :
                /\ call[c].stage # "idle"
                   => /\ call'[c].connects = call[c].connects
                      /\ call'[c].sess = call[c].sess
                      /\ call'[c].opened = call[c].opened
                /\ call[c].outcome \notin {"none", "pending"}
                   => /\ call'[c].execs = call[c].execs
                      /\ call'[c].outcome = call[c].outcome]_vars

\* A call failed with the exec-start error after one connect on a transport
\* of its own and one exec request.
C19_Witness ==
    \E c \in Calls :
        /\ call[c].op = "execute"
        /\ call[c].outcome = "ExecStartError"
        /\ call[c].opened
        /\ call[c].connects = 1
        /\ call[c].execs = 1

\* The text of the chunks of one stream in a delivery history, in arrival
\* order.
RECURSIVE StreamText(_, _)
StreamText(wire, stream) ==
    IF wire = << >> THEN << >>
    ELSE IF Head(wire)[1] = stream
    THEN toString(Head(wire)[2]) \o StreamText(Tail(wire), stream)
    ELSE StreamText(Tail(wire), stream)

\* C20 (stream capture): for every interleaving of the two streams, stdout
\* is the concatenation in arrival order of the text of exactly the chunks
\* delivered on standard output, and stderr likewise for standard error, so
\* no chunk of one appears in the other; the close event leaves both as they
\* are and sets exit_code to the code it carries, which is null and not 0
\* when none was delivered; nothing of the result changes after close.
C20_StreamCapture ==
    /\ [](\A c \in Calls :
            /\ call[c].stdout = StreamText(call[c].wire, "stdout")
            /\ call[c].stderr = StreamText(call[c].wire, "stderr"))
    /\ [][\A c \in Calls :
             /\ \A code \in ExitCodes :
                   StreamClose(c, code)
                   => /\ call'[c].exit_code = code
                      /\ code = JsNull => call'[c].exit_code # JsNumber(0)
                      /\ call'[c].outcome = "result"
                      /\ call'[c].stdout = call[c].stdout
                      /\ call'[c].stderr = call[c].stderr
             /\ call[c].stage = "closed"
                => /\ call'[c].stdout = call[c].stdout
                   /\ call'[c].stderr = call[c].stderr
                   /\ call'[c].exit_code = call[c].exit_code]_vars

\* A call returned a result after a chunk on standard error followed by a
\* different chunk on standard output, and a close without a code.
C20_Witness ==
    \E c \in Calls :
        /\ call[c].outcome = "result"
        /\ Len(call[c].wire) = 2
        /\ call[c].wire[1][1] = "stderr"
        /\ call[c].wire[2][1] = "stdout"
        /\ call[c].wire[1][2] # call[c].wire[2][2]
        /\ call[c].stdout # << >>
        /\ call[c].stderr # << >>
        /\ call[c].exit_code = JsNull

\* C21 (no pruning): every registry entry has connected = true; an entry
\* leaves the registry only in a disconnect of its id or of all, and stays as
\* it is otherwise; a transport error after registration, an exec-start
\* failure and a timeout leave the registry as it is, so that getConnection
\* still returns a session for the name of a session whose transport failed.
C21_NoPruning ==
    /\ [](\A i \in 1 .. Len(connections) : connections[i].connected)
    /\ [][\A i \in 1 .. Len(connections) :
             IF MapHas(connections', connections[i].id)
             THEN MapGet(connections', connections[i].id) = connections[i]
             ELSE \E id \in {NoId, connections[i].id} : Disconnect(id)]_vars
    /\ [][\A c \in Calls :
             /\ (/\ MapHas(connections, call[c].sess)
                 /\ client[call[c].sess.n] = "ready"
                 /\ client'[call[c].sess.n] = "failed")
                => /\ connections' = connections
                   /\ getConnection(call[c].name)' # NoId
             /\ (/\ call[c].outcome = "pending"
                 /\ call'[c].outcome \in {"CommandTimeoutError", "ExecStartError",
                                          "NotConnectedError"})
                => connections' = connections]_vars

\* An executeCommand call was given a registered session whose transport had
\* failed: its exec request could not be started, and the session is still
\* registered with connected = true.
C21_Witness ==
    \E c \in Calls :
        /\ call[c].op = "execute"
        /\ call[c].outcome = "NotConnectedError"
        /\ ~call[c].opened
        /\ MapHas(connections, call[c].sess)
        /\ MapGet(connections, call[c].sess).connected
        /\ client[call[c].sess.n] = "failed"
        /\ getConnection(call[c].name) = call[c].sess

\* C22 (credential deletion does not touch sessions): delete_server, like
\* add_server and set_default, leaves the registry, the transports, the calls
\* and what getStatus reports as they are; a connect or executeCommand for a
\* name under which the store holds no credential fails with the
\* unknown-server error and reuses nothing, whatever the registry holds for
\* the name; and the registry only shrinks in a disconnect.
C22_DeletionKeepsSessions ==
    [][/\ \A n \in CallerNames, write \in WriteOutcomes :
             (\/ deleteServer(n, write)
              \/ setDefaultServer(n, write)
              \/ \E auth \in AuthKinds : addServer(n, auth, write))
             => /\ connections' = connections
                /\ client' = client
                /\ call' = call
                /\ getStatus' = getStatus
       /\ \A c \in Calls :
             (/\ Starts(c)
              /\ config.shape = "store"
              /\ call'[c].name # None
              /\ ~Stored(call'[c].name))
             => /\ call'[c].outcome = "UnknownServerError"
                /\ call'[c].sess = NoId
                /\ ~call'[c].opened
                /\ connections' = connections
       /\ Len(connections') < Len(connections)
          => \E id \in KnownIds : Disconnect(id)]_vars

\* C23 (in-flight connect survives disconnect): a disconnect, of all or by
\* id, leaves every attempt whose handshake is pending as it is, its
\* transport still connecting, and the number it returns counts no such
\* attempt; a handshake that succeeds afterwards registers its session with
\* connected = true.
C23_InFlightSurvives ==
    [][/\ \A id \in KnownIds :
             Disconnect(id)
             => /\ \A c \in Calls :
                      call[c].stage = "handshake"
                      => /\ call'[c] = call[c]
                         /\ client'[call[c].sess.n] = "connecting"
                /\ last'.err = ""
                   => last'.disconnected = Len(connections) - Len(connections')
       /\ \A c \in Calls :
             (call[c].stage = "handshake" /\ call'[c].stage = "connected")
             => /\ MapHas(connections', call[c].sess)
                /\ MapGet(connections', call[c].sess).connected
                /\ ~MapHas(connections, call[c].sess)]_vars

\* The last disconnect removed one session, which only a disconnect of all
\* does here, and no connect call was issued since; the registry holds a
\* session again, that of an attempt whose handshake was pending then.
C23_Witness ==
    /\ last.op = "disconnect"
    /\ last.disconnected = 1
    /\ Len(connections) = 1
    /\ \E c \in Calls :
          /\ call[c].opened
          /\ call[c].outcome = "session"
          /\ connections[1].id = call[c].sess
          /\ connections[1].connected
          /\ client[call[c].sess.n] = "ready"

\* C24 (bounded wait): once the connect step of an executeCommand call with
\* timeout T > 0 has returned a session, the call goes on to arm its timer
\* or fails to start its exec, and with the timer's T seconds left on the
\* clock the call eventually settles, whatever the remote side and
\* disconnect do; a call with timeout 0 whose exec request is out has no
\* timer, and is pending until the remote side answers.
C24_BoundedWait ==
    /\ \A c \in Calls :
          (/\ call[c].op = "execute"
           /\ call[c].stage = "connected"
           /\ call[c].timeout > 0)
          ~> (call[c].timer = "armed" \/ call[c].outcome \notin {"none", "pending"})
    /\ \A c \in Calls :
          (/\ call[c].op = "execute"
           /\ call[c].timer = "armed"
           /\ call[c].deadline <= MaxTime * MsPerSecond)
          ~> (call[c].outcome \notin {"none", "pending"})
    /\ [](\A c \in Calls :
            (/\ call[c].op = "execute"
             /\ call[c].timeout = 0
             /\ call[c].stage \in {"execIssued", "streaming"})
            => /\ call[c].outcome = "pending"
               /\ call[c].timer = "null"
               /\ ~ENABLED TimerFire(c))

\* A call with a positive timeout failed with the timeout error: its exec
\* callback was never invoked and its session had been disconnected.
C24_Witness ==
    \E c \in Calls :
        /\ call[c].op = "execute"
        /\ call[c].timeout > 0
        /\ call[c].outcome = "CommandTimeoutError"
        /\ call[c].stage = "execIssued"
        /\ client[call[c].sess.n] = "ended"
        /\ ~MapHas(connections, call[c].sess)

====
